---------------------------- MODULE Spec2Model ----------------------------
(***************************************************************************)
(* Model of weboutlook/scraper.py: the OutlookWebScraper session state,    *)
(* its two caches, the paginated folder traversal, and the mail server and *)
(* browser it talks to.  Every public method is one atomic action (the     *)
(* scraper is single-threaded and blocking).                               *)
(***************************************************************************)
EXTENDS Integers, Sequences, FiniteSets, TLC

(***************************************************************************)
(* Bounds of the model.                                                    *)
(***************************************************************************)
MaxMsg == 1       \* message numbers a caller passes to get_message/delete_message
FailAtMax == 2    \* a call's k-th request may time out, for k in 1..FailAtMax
PageSize == 1     \* messages the server shows on one listing page
LoopFuel == 12                \* iterations of the paging loop that are followed

InboxSizes == {0, 2, 3, 10}   \* number of messages in the Inbox at the start
SentSizes == {1}                 \* number of messages in Sent Items at the start

(***************************************************************************)
(* Values.                                                                 *)
(***************************************************************************)
None == "None"
Base == "https://host/exchange/user/"     \* the <base href> of the mailbox

FolderNames == {"Inbox", "inbox", "Sent"}  \* names a caller passes
ServerFolders == {"inbox", "sent"}

\* The server resolves folder names without regard to letter case.
Lower(name) ==
    CASE name = "Inbox" -> "inbox"
      [] name = "inbox" -> "inbox"
      [] name = "Sent"  -> "sent"
      [] name = "sent"  -> "sent"
      [] OTHER -> name

\* A message id / link url: base_href prefix or not, folder, number,
\* '?Cmd=open' suffix or not.
Url(pre, f, m, open) == [pre |-> pre, f |-> f, m |-> m, open |-> open]
CallerFolders == {"inbox"}   \* folders of the ids a caller passes
CallerIds == {Url(p, f, m, o) : p \in BOOLEAN, f \in CallerFolders,
                                m \in 1..MaxMsg, o \in BOOLEAN}
\* ids in the form the documentation shows: '/Inbox/Hey%20there.EML'
PlainIds == {u \in CallerIds : ~u.pre /\ ~u.open}
NoId == Url(FALSE, "", 0, FALSE)

\* str.replace(base_href, '') and str.replace('?Cmd=open', '')
StripBase(u) == [u EXCEPT !.pre = FALSE]
StripOpen(u) == [u EXCEPT !.open = FALSE]

\* The raw source of message u as the server sends it.
Payload(u) == <<"raw", u.f, u.m>>

(***************************************************************************)
(* Names bound at module level of scraper.py after import (imports, logger *)
(* objects, the three classes).  A bare name called inside a method is     *)
(* looked up in the module namespace; a name not bound there raises        *)
(* NameError.  HelperNames are the three methods that the handlers call    *)
(* by bare name.                                                           *)
(***************************************************************************)
ModuleGlobals == {"socket", "urllib", "urlparse", "logging", "Browser",
                  "logger", "consolelogger", "InvalidLogin", "RetrievalError",
                  "OutlookWebScraper"}
HelperNames == {"add_to_cache", "find_in_cache", "remove_from_cache"}

VARIABLES
    is_logged_in,    \* self.is_logged_in
    base_href,       \* self.base_href
    folder_cache,    \* self.folder_cache : folder name -> list of urls
    message_cache,   \* self.message_cache : msgid -> payload
    srv,             \* the server's fixed behaviour
    mailbox,         \* server folder -> sequence of message numbers
    call,            \* the call that has just completed
    module_names,    \* names bound in the module namespace
    tick             \* flips at every call, so that a repeated call is a step

vars == <<is_logged_in, base_href, folder_cache, message_cache,
          srv, mailbox, call, module_names, tick>>

Resolves(name) == name \in module_names

Empty == [x \in {} |-> 0]     \* the dict {}

Range(s) == {s[i] : i \in DOMAIN s}

\* dict[k] = v
Put(d, k, v) == [x \in (DOMAIN d) \cup {k} |-> IF x = k THEN v ELSE d[x]]
\* del dict[k]
Del(d, k) == [x \in (DOMAIN d) \ {k} |-> d[x]]

(***************************************************************************)
(* The server.                                                             *)
(***************************************************************************)
ServerKinds ==
    [creds_ok : BOOLEAN,      \* the credentials of the constructor are valid
     has_form : BOOLEAN,      \* the logon page carries the form 'logonForm'
     landing : {"ok", "nobase", "nolinks"},  \* links of the page after logon
     abs_links : BOOLEAN,     \* listing hrefs are absolute (start with base_href)
     open_suffix : BOOLEAN,   \* listing hrefs end in '?Cmd=open'
     has_next : BOOLEAN]      \* listing pages carry a 'Next Page' link

Iota(n) == [i \in 1..n |-> i]

\* Number of listing pages of a folder; an empty folder shows "1 of 1".
NumPages(box, f) ==
    IF Len(box[f]) = 0 THEN 1 ELSE (Len(box[f]) + PageSize - 1) \div PageSize

\* Message numbers on page p; a page beyond the end is the last page again.
PageMsgs(box, f, p) ==
    LET n == NumPages(box, f)
        q == IF p > n THEN n ELSE p
        lo == (q - 1) * PageSize + 1
        hi == IF q * PageSize > Len(box[f]) THEN Len(box[f]) ELSE q * PageSize
    IN  IF hi < lo THEN <<>> ELSE SubSeq(box[f], lo, hi)

\* The hrefs of the .EML links on page p, as the server renders them.
PageLinks(s, box, f, p) ==
    LET ms == PageMsgs(box, f, p)
    IN  [i \in DOMAIN ms |-> Url(s.abs_links, f, ms[i], s.open_suffix)]

\* The url base_href + msgid addresses a message that exists.
Addresses(box, u) ==
    /\ ~u.pre
    /\ ~u.open
    /\ u.f \in DOMAIN box
    /\ u.m \in Range(box[u.f])

\* The server moves the message to "Deleted Items".
ServerDelete(box, u) ==
    [box EXCEPT ![u.f] = SelectSeq(box[u.f], LAMBDA m : m # u.m)]

(***************************************************************************)
(* A completed call, as its caller observes it.                            *)
(***************************************************************************)
NoRet == <<"none">>
Obs(op, folder, refresh, msgid, was_in, exc, ret, logins, reqs, nexts) ==
    [op |-> op, folder |-> folder, refresh |-> refresh, msgid |-> msgid,
     was_in |-> was_in, exc |-> exc, ret |-> ret,
     logins |-> logins, reqs |-> reqs, nexts |-> nexts]
NoCall == Obs("init", "", FALSE, NoId, FALSE, "none", NoRet, 0, 0, 0)

(***************************************************************************)
(* Python values returned by the cache helpers: a found value, None (the   *)
(* method fell off its end) or False; and the truth value `if x:` gives.   *)
(* Lists and payloads are both sequences here; an empty list is false.     *)
(***************************************************************************)
Val(v) == <<"val", v>>
PyNone == <<"None">>
PyFalse == <<"False">>
PyTrue == <<"True">>
Raise(e) == <<"raise", e>>
Truthy(r) == IF r[1] = "val" THEN Len(r[2]) > 0 ELSE r[1] = "True"

(***************************************************************************)
(* add_to_cache, find_in_cache: the methods.  "" and NoId stand for an     *)
(* argument left at None.  The result of add_to_cache is the pair of       *)
(* caches after the call.                                                  *)
(***************************************************************************)
add_to_cache(fc, mc, folder_name, message_urls, msgid, payload) ==
    IF folder_name # ""
    THEN [fc |-> Put(fc, folder_name, message_urls), mc |-> mc]
    ELSE IF msgid # NoId
    THEN [fc |-> fc, mc |-> Put(mc, msgid, payload)]
    ELSE [fc |-> fc, mc |-> mc]

find_in_cache(fc, mc, folder_name, msgid) ==
    IF msgid # NoId /\ msgid \in DOMAIN mc
    THEN Val(mc[msgid])
    ELSE IF folder_name # ""
    THEN IF folder_name \in DOMAIN fc THEN Val(fc[folder_name]) ELSE PyNone
    ELSE PyFalse

(***************************************************************************)
(* The methods of get_folder, get_message, delete_message and              *)
(* remove_from_cache call the helpers by their bare names, without         *)
(* `self.`: the call reaches the method only if the name resolves.         *)
(***************************************************************************)
call_find_in_cache(fc, mc, folder_name, msgid) ==
    IF Resolves("find_in_cache")
    THEN find_in_cache(fc, mc, folder_name, msgid)
    ELSE Raise("NameError")

\* [exc, fc, mc]
call_add_to_cache(fc, mc, folder_name, message_urls, msgid, payload) ==
    IF Resolves("add_to_cache")
    THEN LET c == add_to_cache(fc, mc, folder_name, message_urls, msgid, payload)
         IN  [exc |-> "none", fc |-> c.fc, mc |-> c.mc]
    ELSE [exc |-> "NameError", fc |-> fc, mc |-> mc]

(***************************************************************************)
(* remove_from_cache: [exc, ret, fc, mc].                                  *)
(***************************************************************************)
RECURSIVE DelAll(_, _)
\* for id in cache: del self.message_cache[id]
DelAll(mc, ids) ==
    IF ids = <<>> THEN [exc |-> "none", mc |-> mc]
    ELSE IF Head(ids) \notin DOMAIN mc THEN [exc |-> "KeyError", mc |-> mc]
    ELSE DelAll(Del(mc, Head(ids)), Tail(ids))

RemoveOut(exc, ret, fc, mc) == [exc |-> exc, ret |-> ret, fc |-> fc, mc |-> mc]

remove_folder_part(fc, mc, folder_name) ==
    IF folder_name # ""
    THEN LET cache == call_find_in_cache(fc, mc, folder_name, NoId)
         IN  IF cache[1] = "raise" THEN RemoveOut(cache[2], PyNone, fc, mc)
             ELSE IF Truthy(cache)
             THEN LET d == DelAll(mc, cache[2])
                  IN  RemoveOut(d.exc, PyTrue, Del(fc, folder_name), d.mc)
             ELSE RemoveOut("none", PyFalse, fc, mc)
    ELSE RemoveOut("none", PyFalse, fc, mc)

remove_from_cache(fc, mc, folder_name, msgid) ==
    IF msgid # NoId
    THEN LET cache == call_find_in_cache(fc, mc, "", msgid)
         IN  IF cache[1] = "raise" THEN RemoveOut(cache[2], PyNone, fc, mc)
             ELSE IF Truthy(cache)
             THEN IF folder_name = ""
                  THEN RemoveOut("none", PyTrue, fc, Del(mc, msgid))
                  ELSE remove_folder_part(fc, Del(mc, msgid), folder_name)
             ELSE remove_folder_part(fc, mc, folder_name)
    ELSE remove_folder_part(fc, mc, folder_name)

call_remove_from_cache(fc, mc, folder_name, msgid) ==
    IF Resolves("remove_from_cache")
    THEN remove_from_cache(fc, mc, folder_name, msgid)
    ELSE RemoveOut("NameError", PyNone, fc, mc)

(***************************************************************************)
(* __init__                                                                *)
(***************************************************************************)
Constructed ==
    /\ is_logged_in = FALSE
    /\ base_href = None
    /\ folder_cache = Empty
    /\ message_cache = Empty
    /\ srv \in ServerKinds
    /\ \E ni \in InboxSizes, ns \in SentSizes :
          mailbox = [f \in ServerFolders |->
                       IF f = "inbox" THEN Iota(ni) ELSE Iota(ns)]
    /\ call = NoCall
    /\ tick = 0

\* The scraper as the module defines it.
Init ==
    /\ Constructed
    /\ module_names = ModuleGlobals

\* The scraper in a module namespace where the helper names are bound to the
\* instance's methods, so that the bare calls reach them.
InitBound ==
    /\ Constructed
    /\ module_names = ModuleGlobals \cup HelperNames

(***************************************************************************)
(* flush_cache                                                             *)
(***************************************************************************)
\* flush_cache that also forgets the session
flush_cache_all ==
    /\ folder_cache' = Empty
    /\ message_cache' = Empty
    /\ is_logged_in' = FALSE
    /\ base_href' = None
    /\ tick' = 1 - tick
    /\ call' = Obs("flush_cache", "", FALSE, NoId, is_logged_in,
                   "none", <<"True">>, 0, 0, 0)
    /\ UNCHANGED <<srv, mailbox, module_names>>

flush_cache ==
    /\ folder_cache' = Empty
    /\ message_cache' = Empty
    /\ tick' = 1 - tick
    /\ call' = Obs("flush_cache", "", FALSE, NoId, is_logged_in,
                   "none", <<"True">>, 0, 0, 0)
    /\ UNCHANGED <<is_logged_in, base_href, srv, mailbox, module_names>>

(***************************************************************************)
(* login: the result of self.login() when n0 requests have already been    *)
(* made in this call and request number failAt times out.                  *)
(***************************************************************************)
LoginOut(exc, logged, href, reqs) ==
    [exc |-> exc, logged |-> logged, href |-> href, reqs |-> reqs]

\* login that marks the session as logged in before it looks at the page
LoginResultEager(s, logged, href, failAt, n0) ==
    IF failAt = n0 + 1
    THEN LoginOut("URLError", logged, href, n0 + 1)
    ELSE IF ~s.has_form
    THEN IF ~s.creds_ok
         THEN LoginOut("HTTPError", logged, href, n0 + 1)
         ELSE LoginOut("FormNotFoundError", logged, href, n0 + 1)
    ELSE IF failAt = n0 + 2
    THEN LoginOut("URLError", logged, href, n0 + 2)
    ELSE IF ~s.creds_ok
    THEN LoginOut("InvalidLogin", TRUE, Base, n0 + 2)
    ELSE IF s.landing = "nolinks"
    THEN LoginOut("StopIteration", logged, href, n0 + 2)
    ELSE IF s.landing = "nobase"
    THEN LoginOut("RetrievalError", logged, href, n0 + 2)
    ELSE LoginOut("none", TRUE, Base, n0 + 2)

\* login that clears the session state at its start
LoginResultReset(s, logged, href, failAt, n0) ==
    IF failAt = n0 + 1
    THEN LoginOut("URLError", FALSE, None, n0 + 1)
    ELSE IF ~s.has_form
    THEN IF ~s.creds_ok
         THEN LoginOut("HTTPError", FALSE, None, n0 + 1)
         ELSE LoginOut("FormNotFoundError", FALSE, None, n0 + 1)
    ELSE IF failAt = n0 + 2
    THEN LoginOut("URLError", FALSE, None, n0 + 2)
    ELSE IF ~s.creds_ok
    THEN LoginOut("InvalidLogin", FALSE, None, n0 + 2)
    ELSE IF s.landing = "nolinks"
    THEN LoginOut("StopIteration", FALSE, None, n0 + 2)
    ELSE IF s.landing = "nobase"
    THEN LoginOut("RetrievalError", FALSE, None, n0 + 2)
    ELSE LoginOut("none", TRUE, Base, n0 + 2)

LoginResult(s, logged, href, failAt, n0) ==
    IF failAt = n0 + 1
    THEN LoginOut("URLError", logged, href, n0 + 1)           \* browser.open
    ELSE IF ~s.has_form
    THEN IF ~s.creds_ok
         THEN LoginOut("HTTPError", logged, href, n0 + 1)     \* 401 on open
         ELSE LoginOut("FormNotFoundError", logged, href, n0 + 1) \* select_form
    ELSE IF failAt = n0 + 2
    THEN LoginOut("URLError", logged, href, n0 + 2)           \* browser.submit
    ELSE IF ~s.creds_ok
    THEN LoginOut("InvalidLogin", logged, href, n0 + 2)
    ELSE IF s.landing = "nolinks"
    THEN LoginOut("StopIteration", logged, href, n0 + 2)      \* links().next()
    ELSE IF s.landing = "nobase"
    THEN LoginOut("RetrievalError", logged, href, n0 + 2)
    ELSE LoginOut("none", TRUE, Base, n0 + 2)

login ==
    \E failAt \in 0..FailAtMax :
      LET r == LoginResult(srv, is_logged_in, base_href, failAt, 0)
      IN  /\ is_logged_in' = r.logged
          /\ base_href' = r.href
          /\ tick' = 1 - tick
          /\ call' = Obs("login", "", FALSE, NoId, is_logged_in,
                         r.exc, NoRet, 1, r.reqs, 0)
          /\ UNCHANGED <<folder_cache, message_cache, srv, mailbox, module_names>>

(***************************************************************************)
(* The result of a handler: the exception it ends with ("none" if it       *)
(* returns), its return value, the session and caches it leaves, and the   *)
(* number of login() calls, requests and 'Next Page' requests it made.     *)
(***************************************************************************)
Out(exc, ret, logged, href, fc, mc, logins, reqs, nexts) ==
    [exc |-> exc, ret |-> ret, logged |-> logged, href |-> href,
     fc |-> fc, mc |-> mc, logins |-> logins, reqs |-> reqs, nexts |-> nexts]

\* if not self.is_logged_in: self.login()
EnsureLogin(s, logged, href, failAt) ==
    IF logged
    THEN [exc |-> "none", logged |-> logged, href |-> href, reqs |-> 0, logins |-> 0]
    ELSE LET r == LoginResult(s, logged, href, failAt, 0)
         IN  [exc |-> r.exc, logged |-> r.logged, href |-> r.href,
              reqs |-> r.reqs, logins |-> 1]

\* '&nbsp;of&nbsp;1' in body: the text "of N" of the page-count indicator
\* starts with "of 1" when the decimal numeral of N starts with the digit 1.
RECURSIVE LeadingDigit(_)
LeadingDigit(n) == IF n < 10 THEN n ELSE LeadingDigit(n \div 10)
ReportsOf1(n) == LeadingDigit(n) = 1

\* murls: the .EML links of a later page with base_href replaced by ''
Normalized(links) == [i \in DOMAIN links |-> StripBase(links[i])]

(***************************************************************************)
(* The while loop of get_folder.  cur is the page the browser shows, last  *)
(* is last_message_urls, acc is message_urls.  [exc, acc, reqs, nexts]     *)
(* A call whose loop makes LoopFuel requests without leaving it is         *)
(* recorded as "NoTermination".                                            *)
(***************************************************************************)
\* the loop with its exit test made against everything collected so far
RECURSIVE PaginateWhole(_, _, _, _, _, _, _, _, _)
PaginateWhole(s, box, f, cur, last, acc, failAt, reqs, nexts) ==
    IF nexts >= LoopFuel
    THEN [exc |-> "NoTermination", acc |-> acc, reqs |-> reqs, nexts |-> nexts]
    ELSE IF ~s.has_next
    THEN [exc |-> "IndexError", acc |-> acc, reqs |-> reqs, nexts |-> nexts]
    ELSE IF failAt = reqs + 1
    THEN [exc |-> "URLError", acc |-> acc, reqs |-> reqs + 1, nexts |-> nexts + 1]
    ELSE LET murls == Normalized(PageLinks(s, box, f, cur + 1))
             n == NumPages(box, f)
             shown == IF cur + 1 > n THEN n ELSE cur + 1
         IN  IF murls = acc
             THEN [exc |-> "none", acc |-> acc \o murls,
                   reqs |-> reqs + 1, nexts |-> nexts + 1]
             ELSE PaginateWhole(s, box, f, shown, murls, acc \o murls,
                                failAt, reqs + 1, nexts + 1)

RECURSIVE Paginate(_, _, _, _, _, _, _, _, _)
Paginate(s, box, f, cur, last, acc, failAt, reqs, nexts) ==
    IF nexts >= LoopFuel                 \* the loop is still running
    THEN [exc |-> "NoTermination", acc |-> acc, reqs |-> reqs, nexts |-> nexts]
    ELSE IF ~s.has_next
    THEN [exc |-> "IndexError", acc |-> acc, reqs |-> reqs, nexts |-> nexts]
    ELSE IF failAt = reqs + 1
    THEN [exc |-> "URLError", acc |-> acc, reqs |-> reqs + 1, nexts |-> nexts + 1]
    ELSE LET murls == Normalized(PageLinks(s, box, f, cur + 1))
             n == NumPages(box, f)
             shown == IF cur + 1 > n THEN n ELSE cur + 1
         IN  IF murls = last
             THEN [exc |-> "none", acc |-> acc \o murls,
                   reqs |-> reqs + 1, nexts |-> nexts + 1]
             ELSE Paginate(s, box, f, shown, murls, acc \o murls,
                           failAt, reqs + 1, nexts + 1)

(***************************************************************************)
(* get_folder                                                              *)
(***************************************************************************)
FetchFolder(s, box, logged, href, fc, mc, folder_name, failAt) ==
    LET l == EnsureLogin(s, logged, href, failAt)
        f == Lower(folder_name)
    IN  IF l.exc # "none"
        THEN Out(l.exc, NoRet, l.logged, l.href, fc, mc, l.logins, l.reqs, 0)
        ELSE IF failAt = l.reqs + 1
        THEN Out("URLError", NoRet, l.logged, l.href, fc, mc,
                 l.logins, l.reqs + 1, 0)
        ELSE LET message_urls == PageLinks(s, box, f, 1)
             IN  IF ReportsOf1(NumPages(box, f))
                 THEN LET a == call_add_to_cache(fc, mc, folder_name,
                                                 message_urls, NoId, <<>>)
                      IN  Out(a.exc,
                              IF a.exc = "none" THEN Val(message_urls) ELSE NoRet,
                              l.logged, l.href, a.fc, a.mc,
                              l.logins, l.reqs + 1, 0)
                 ELSE LET p == Paginate(s, box, f, 1, message_urls, message_urls,
                                        failAt, l.reqs + 1, 0)
                          a == call_add_to_cache(fc, mc, folder_name,
                                                 p.acc, NoId, <<>>)
                      IN  IF p.exc # "none"
                          THEN Out(p.exc, NoRet, l.logged, l.href, fc, mc,
                                   l.logins, p.reqs, p.nexts)
                          ELSE Out(a.exc,
                                   IF a.exc = "none" THEN Val(p.acc) ELSE NoRet,
                                   l.logged, l.href, a.fc, a.mc,
                                   l.logins, p.reqs, p.nexts)

GetFolderResult(s, box, logged, href, fc, mc, folder_name, refresh, failAt) ==
    IF ~refresh
    THEN LET message_urls == call_find_in_cache(fc, mc, folder_name, NoId)
         IN  IF message_urls[1] = "raise"
             THEN Out(message_urls[2], NoRet, logged, href, fc, mc, 0, 0, 0)
             ELSE IF Truthy(message_urls)
             THEN Out("none", message_urls, logged, href, fc, mc, 0, 0, 0)
             ELSE FetchFolder(s, box, logged, href, fc, mc, folder_name, failAt)
    ELSE FetchFolder(s, box, logged, href, fc, mc, folder_name, failAt)

Finish(op, folder, refresh, msgid, r) ==
    /\ is_logged_in' = r.logged
    /\ base_href' = r.href
    /\ folder_cache' = r.fc
    /\ message_cache' = r.mc
    /\ tick' = 1 - tick
    /\ call' = Obs(op, folder, refresh, msgid, is_logged_in, r.exc, r.ret,
                   r.logins, r.reqs, r.nexts)

get_folder ==
    \E folder_name \in FolderNames, refresh \in BOOLEAN, failAt \in 0..FailAtMax :
      /\ Finish("get_folder", folder_name, refresh, NoId,
                GetFolderResult(srv, mailbox, is_logged_in, base_href,
                                folder_cache, message_cache,
                                folder_name, refresh, failAt))
      /\ UNCHANGED <<srv, mailbox, module_names>>

(***************************************************************************)
(* inbox                                                                   *)
(***************************************************************************)
inbox ==
    \E refresh \in BOOLEAN, failAt \in 0..FailAtMax :
      /\ Finish("inbox", "Inbox", refresh, NoId,
                GetFolderResult(srv, mailbox, is_logged_in, base_href,
                                folder_cache, message_cache,
                                "Inbox", refresh, failAt))
      /\ UNCHANGED <<srv, mailbox, module_names>>

(***************************************************************************)
(* get_message                                                             *)
(***************************************************************************)
\* The request for base_href + msgid + '?Cmd=body' is answered with a body.
\* For an id that ends in '?Cmd=open' the url has two '?Cmd=' parts; a
\* server may refuse it or (lenient) serve the message all the same.
Served(box, msgid, lenient) ==
    \/ Addresses(box, msgid)
    \/ lenient /\ msgid.open /\ Addresses(box, StripOpen(msgid))

GetMessageResult(s, box, logged, href, fc, mc, msgid, failAt, lenient) ==
    LET payload == call_find_in_cache(fc, mc, "", msgid)
    IN  IF payload[1] = "raise"
        THEN Out(payload[2], NoRet, logged, href, fc, mc, 0, 0, 0)
        ELSE IF Truthy(payload)
        THEN Out("none", payload, logged, href, fc, mc, 0, 0, 0)
        ELSE LET l == EnsureLogin(s, logged, href, failAt)
             IN  IF l.exc # "none"
                 THEN Out(l.exc, NoRet, l.logged, l.href, fc, mc,
                          l.logins, l.reqs, 0)
                 ELSE IF failAt = l.reqs + 1
                 THEN Out("URLError", NoRet, l.logged, l.href, fc, mc,
                          l.logins, l.reqs + 1, 0)
                 ELSE IF ~Served(box, msgid, lenient)
                 THEN Out("HTTPError", NoRet, l.logged, l.href, fc, mc,
                          l.logins, l.reqs + 1, 0)
                 ELSE LET a == call_add_to_cache(fc, mc, "", <<>>,
                                                 msgid, Payload(msgid))
                      IN  Out(a.exc,
                              IF a.exc = "none" THEN Val(Payload(msgid)) ELSE NoRet,
                              l.logged, l.href, a.fc, a.mc,
                              l.logins, l.reqs + 1, 0)

get_message ==
    \E msgid \in CallerIds, failAt \in 0..FailAtMax, lenient \in BOOLEAN :
      /\ Finish("get_message", "", FALSE, msgid,
                GetMessageResult(srv, mailbox, is_logged_in, base_href,
                                 folder_cache, message_cache, msgid, failAt,
                                 lenient))
      /\ UNCHANGED <<srv, mailbox, module_names>>

(***************************************************************************)
(* delete_message: the result, and the mailbox the server is left with.    *)
(***************************************************************************)
DeleteMessageResult(s, box, logged, href, fc, mc, msgid0, failAt) ==
    LET l == EnsureLogin(s, logged, href, failAt)
        msgid == StripOpen(msgid0)
    IN  IF l.exc # "none"
        THEN [out |-> Out(l.exc, NoRet, l.logged, l.href, fc, mc,
                          l.logins, l.reqs, 0), box |-> box]
        ELSE IF failAt = l.reqs + 1
        THEN [out |-> Out("URLError", NoRet, l.logged, l.href, fc, mc,
                          l.logins, l.reqs + 1, 0), box |-> box]
        ELSE IF ~Addresses(box, msgid)
        THEN [out |-> Out("HTTPError", NoRet, l.logged, l.href, fc, mc,
                          l.logins, l.reqs + 1, 0), box |-> box]
        ELSE LET r == call_remove_from_cache(fc, mc, "", msgid)
             IN  [out |-> Out(r.exc,
                              IF r.exc = "none" THEN <<"response">> ELSE NoRet,
                              l.logged, l.href, r.fc, r.mc,
                              l.logins, l.reqs + 1, 0),
                  box |-> ServerDelete(box, msgid)]

delete_message ==
    \E msgid \in CallerIds, failAt \in 0..FailAtMax :
      LET d == DeleteMessageResult(srv, mailbox, is_logged_in, base_href,
                                   folder_cache, message_cache, msgid, failAt)
      IN  /\ Finish("delete_message", "", FALSE, msgid, d.out)
          /\ mailbox' = d.box
          /\ UNCHANGED <<srv, module_names>>

(***************************************************************************)
(* remove_from_cache, called by the user of the scraper.                   *)
(***************************************************************************)
RemoveFromCache ==
    \E folder_name \in FolderNames \cup {""}, msgid \in PlainIds \cup {NoId} :
      LET r == remove_from_cache(folder_cache, message_cache, folder_name, msgid)
      IN  /\ Finish("remove_from_cache", folder_name, FALSE, msgid,
                    Out(r.exc, IF r.exc = "none" THEN r.ret ELSE NoRet,
                        is_logged_in, base_href, r.fc, r.mc, 0, 0, 0))
          /\ UNCHANGED <<srv, mailbox, module_names>>

Next ==
    \/ login
    \/ inbox
    \/ get_folder
    \/ get_message
    \/ delete_message
    \/ flush_cache
    \/ RemoveFromCache

Spec == Init /\ [][Next]_vars
SpecBound == InitBound /\ [][Next]_vars

(***************************************************************************)
(* Vocabulary of the properties.                                           *)
(***************************************************************************)
FolderOps == {"get_folder", "inbox"}
SessionOps == {"get_folder", "inbox", "get_message", "delete_message"}

\* Exceptions that the server or the network causes: a refused or failed
\* logon, a request that times out or is answered with an error status, a
\* page without the expected link.
EnvErrors == {"URLError", "HTTPError", "InvalidLogin", "FormNotFoundError",
              "StopIteration", "RetrievalError", "IndexError"}

\* The message numbers a listing names, in order.
Msgs(list) == [i \in DOMAIN list |-> list[i].m]
NoDup(list) == \A i, j \in DOMAIN list : list[i] = list[j] => i = j
\* The listing names message u (with whatever prefix or suffix).
Lists(list, u) == \E i \in DOMAIN list : list[i].f = u.f /\ list[i].m = u.m

C2_Pagination ==
    [][(/\ call'.op \in FolderOps
        /\ call'.refresh \/ call'.folder \notin DOMAIN folder_cache
        /\ call'.exc \notin EnvErrors
        /\ NumPages(mailbox, Lower(call'.folder)) >= 2) =>
         /\ call'.exc = "none"
         /\ call'.ret[1] = "val"
         /\ Msgs(call'.ret[2]) = mailbox[Lower(call'.folder)]
         /\ call'.nexts = NumPages(mailbox, Lower(call'.folder))
      ]_vars

C4_MessageFetchedOnce ==
    [][(/\ call.op = "get_message"
        /\ call.exc \notin EnvErrors
        /\ call'.op = "get_message"
        /\ call'.msgid = call.msgid) =>
         /\ call.reqs + call'.reqs <= IF call.was_in THEN 1 ELSE 3
         /\ call'.reqs = 0
         /\ call'.exc = "none"
         /\ call'.ret = Val(Payload(call.msgid))
      ]_vars

C6_FlushForcesFetch ==
    [][/\ (call'.op = "flush_cache") =>
            (folder_cache' = Empty /\ message_cache' = Empty)
       /\ (call.op = "flush_cache"
             /\ call'.op \in {"get_folder", "inbox", "get_message"}) =>
            call'.reqs >= 1
      ]_vars

(***************************************************************************)
(* C7: when the listing reports one page ("1 of 1"), a get_folder that     *)
(* fetches it from a server that answers returns exactly the ids of the    *)
(* first page, makes no 'Next Page' request, and caches that list.         *)
(***************************************************************************)
C7_SinglePage ==
    [][(/\ call'.op \in FolderOps
        /\ call'.refresh \/ call'.folder \notin DOMAIN folder_cache
        /\ call'.exc \notin EnvErrors
        /\ NumPages(mailbox, Lower(call'.folder)) = 1) =>
         /\ call'.exc = "none"
         /\ call'.ret = Val(PageLinks(srv, mailbox, Lower(call'.folder), 1))
         /\ call'.nexts = 0
         /\ call'.folder \in DOMAIN folder_cache'
         /\ folder_cache'[call'.folder] = call'.ret[2]
      ]_vars

C10_AutoLoginOnce ==
    call.op \in SessionOps =>
        call.logins = (IF call.was_in THEN 0 ELSE 1)

(***************************************************************************)
(* C11: get_folder(name, refresh=true) and inbox(refresh=true) issue a     *)
(* network request whether or not name is cached, and when the server and  *)
(* network do not fail the call, it returns and the folder cache entry of  *)
(* name is the listing it returns.                                         *)
(***************************************************************************)
C11_RefreshRefetches ==
    [][(call'.op \in FolderOps /\ call'.refresh) =>
         /\ call'.reqs >= 1
         /\ (call'.exc \notin EnvErrors) =>
              /\ call'.exc = "none"
              /\ call'.ret[1] = "val"
              /\ call'.folder \in DOMAIN folder_cache'
              /\ folder_cache'[call'.folder] = call'.ret[2]
      ]_vars

(***************************************************************************)
(* C12: once is_logged_in is true no step sets it back to false, and       *)
(* whenever is_logged_in is true base_href is set.                         *)
(***************************************************************************)
C12_LoggedInIsTerminal ==
    [][/\ is_logged_in => is_logged_in'
       /\ is_logged_in => base_href # None
       /\ is_logged_in' => base_href' # None
      ]_vars

\* a login repeated while logged in has failed, and the session is still there
C12_Witness ==
    /\ call.op = "login"
    /\ call.was_in
    /\ call.exc # "none"
    /\ is_logged_in
    /\ base_href = Base

(***************************************************************************)
(* C13: when get_folder, called with refresh by a logged-in scraper for a  *)
(* folder of two or more pages, finds no 'Next Page' link (and no request  *)
(* times out), it fails with RetrievalError and leaves the folder cache    *)
(* exactly as it was.                                                      *)
(***************************************************************************)
C13_MissingNextLink ==
    [][(/\ call'.op \in FolderOps
        /\ call'.refresh
        /\ call'.was_in
        /\ call'.exc # "URLError"
        /\ ~srv.has_next
        /\ NumPages(mailbox, Lower(call'.folder)) >= 2) =>
         /\ call'.exc = "RetrievalError"
         /\ folder_cache' = folder_cache
      ]_vars

(***************************************************************************)
(* C14: remove_from_cache(folder_name=n) returns, with True exactly when n *)
(* was in the folder cache; afterwards n has no entry, the other folders'  *)
(* entries are unchanged, and the message cache has lost exactly the ids   *)
(* that n's entry listed (whether or not their bodies were cached).        *)
(***************************************************************************)
C14_FolderInvalidation ==
    [][(/\ call'.op = "remove_from_cache"
        /\ call'.folder # ""
        /\ call'.msgid = NoId) =>
         LET n == call'.folder
             listed == IF n \in DOMAIN folder_cache
                       THEN Range(folder_cache[n]) ELSE {}
         IN  /\ call'.exc = "none"
             /\ call'.ret = (IF n \in DOMAIN folder_cache THEN PyTrue ELSE PyFalse)
             /\ DOMAIN folder_cache' = DOMAIN folder_cache \ {n}
             /\ \A k \in DOMAIN folder_cache' : folder_cache'[k] = folder_cache[k]
             /\ DOMAIN message_cache' = DOMAIN message_cache \ listed
             /\ \A k \in DOMAIN message_cache' : message_cache'[k] = message_cache[k]
      ]_vars

C15_NoBaseUrl ==
    [][(/\ call'.op = "login"
        /\ srv.has_form
        /\ srv.creds_ok
        /\ srv.landing # "ok"
        /\ ~is_logged_in
        /\ call'.exc # "URLError") =>
         /\ call'.exc = "RetrievalError"
         /\ ~is_logged_in'
         /\ base_href' = None
      ]_vars

(***************************************************************************)
(* C16: against a server whose logon page has no form (it authenticates at *)
(* transport level and accepts the credentials), login() submits no form   *)
(* (its only request is the one that opens the page) and ends logged in    *)
(* with base_href set.                                                     *)
(***************************************************************************)
C16_NoFormNoSubmit ==
    [][(/\ call'.op = "login"
        /\ ~srv.has_form
        /\ srv.creds_ok
        /\ srv.landing = "ok"
        /\ call'.exc # "URLError") =>
         /\ call'.exc = "none"
         /\ call'.reqs = 1
         /\ is_logged_in'
         /\ base_href' = Base
      ]_vars

C17_LoopTerminates ==
    (/\ call.op \in FolderOps
     /\ srv.has_next
     /\ NumPages(mailbox, Lower(call.folder)) >= 2) =>
      /\ call.exc # "NoTermination"
      /\ call.nexts <= NumPages(mailbox, Lower(call.folder))

\* a call that needed all n requests to see the last page twice
C17_Witness ==
    /\ call.op \in FolderOps
    /\ srv.has_next
    /\ NumPages(mailbox, Lower(call.folder)) >= 2
    /\ call.nexts = NumPages(mailbox, Lower(call.folder))
    /\ call.exc \notin EnvErrors

=============================================================================
